---- MODULE Spec2Model ----
(***************************************************************************)
(* Vim segments of powerline (powerline/segments/vim.py): the two caches   *)
(* (trailing_whitespace's changedtick-keyed cache, window_cached's         *)
(* window_id-keyed cache), the tab / buffer listers, the mode segment and  *)
(* the file-name segments.                                                 *)
(*                                                                         *)
(* Python values: None is the empty tuple, a list is a tuple, a dict is a  *)
(* function from its keys, an optional value x is <<x>>.                   *)
(***************************************************************************)
EXTENDS Integers, Sequences, FiniteSets, TLC

VARIABLES
    build,                      \* the interpreter / host the module runs in
    buffers,                    \* bufnr -> the buffer's lines (host)
    changedtick,                \* bufnr -> b:changedtick (host)
    trailing_whitespace_cache,  \* module global, line 439
    twCall,                     \* the last trailing_whitespace call observed
    twHist,                     \* history of the trailing_whitespace calls
    calls,                      \* number of segment calls made so far
    window_cache,               \* decorated function -> its cache dict, line 67
    wcCall,                     \* the last window_cached call observed
    wcHist,                     \* function -> window_id -> last focused result
    tabpages,                   \* list_tabpages(): the host's tab pages
    cur_tabnr,                  \* current_tabpage().number
    buflist,                    \* vim.buffers: the host's buffer numbers
    cur_bufnr,                  \* vim.current.buffer.number
    listCall,                   \* the last lister call observed
    segCall,                    \* the last mode / file segment call observed
    fanCall                     \* the last evaluation over a lister's output

twVars == <<build, buffers, changedtick, trailing_whitespace_cache, twCall,
            twHist>>

wcVars == <<window_cache, wcCall, wcHist>>

hostVars == <<tabpages, cur_tabnr, buflist, cur_bufnr>>

vars == <<twVars, calls, wcVars, hostVars, listCall, segCall, fanCall>>

(***************************************************************************)
(* Bounds.                                                                 *)
(***************************************************************************)
MaxTick == 2
MaxCalls == 3
MaxTabs == 3
MaxBuf == 2
FanTabs == 2
FanBufs == 2

None == <<>>

Abs(x) == IF x < 0 THEN -x ELSE x

Digits == <<"0", "1", "2", "3", "4", "5", "6", "7", "8", "9">>

RECURSIVE str(_)
\* str(n) of a natural number: its decimal digits, most significant first.
str(n) == IF n < 10 THEN <<Digits[n + 1]>>
          ELSE Append(str(n \div 10), Digits[(n % 10) + 1])

(***************************************************************************)
(* trailing_whitespace (lines 439-488).                                    *)
(***************************************************************************)
Bufnrs == {1, 2}

\* "U" stands for a byte that does not decode in the buffer's encoding.
Undecodable == "U"

\* The interpreters and hosts the module supports: Python 2, Python 3 on a
\* Vim with vim.bindeval, Python 3 on a Vim without it.
Builds == {"py2", "py3_bindeval", "py3_eval"}

\* bws = b' \t'
bws == <<" ", "\t">>

\* sws = str(bws): under Python 2 str(b' \t') is the same two bytes; under
\* Python 3 str() of a bytes object is its repr, the six characters b' \t'
\* (b, quote, space, backslash, t, quote).
sws(b) == IF b = "py2" THEN {" ", "\t"} ELSE {"b", "'", " ", "\\", "t"}

\* x in y for byte strings: x is a contiguous part of y.
BytesIn(x, y) ==
    \E i \in 1..(Len(y) + 1) :
        /\ i + Len(x) - 1 <= Len(y)
        /\ \A k \in 1..Len(x) : y[i + k - 1] = x[k]

\* buf[i] raises UnicodeDecodeError: only Python 3 decodes the line.
DecodeFails(b, line) ==
    b # "py2" /\ \E k \in 1..Len(line) : line[k] = Undecodable

\* One pass of the loop body, lines 465-477: "raise", or has_trailing_ws.
LineCheck(b, line) ==
    IF DecodeFails(b, line)
    THEN IF b = "py3_bindeval"
         \* line = vim.bindeval('getbufline(..)') is a one-element list
         \* whose last element is the whole line: line[-1] in bws
         THEN [raised |-> FALSE, has |-> BytesIn(line, bws)]
         \* strtrans() of a list is a Vim error
         ELSE [raised |-> TRUE, has |-> FALSE]
    ELSE [raised |-> FALSE,
          has |-> Len(line) > 0 /\ line[Len(line)] \in sws(b)]

RECURSIVE ScanFrom(_, _, _)
\* The for loop of lines 464-479 from index i (1-based): the index it
\* breaks at, 0 when it runs to the end, -1 when it raises.
ScanFrom(b, buf, i) ==
    IF i > Len(buf) THEN 0
    ELSE LET c == LineCheck(b, buf[i])
         IN  IF c.raised THEN -1
             ELSE IF c.has THEN i
             ELSE ScanFrom(b, buf, i + 1)

TWSegment(i) ==
    <<[contents |-> str(i),
       highlight_group |-> <<"trailing_whitespace", "warning">>]>>

\* Lines 461-486: the scan and the value built from it. An empty buffer
\* leaves has_trailing_ws unbound at line 480, which raises.
Scan(b, buf) ==
    LET i == ScanFrom(b, buf, 1)
    IN  IF Len(buf) = 0 \/ i = -1 THEN [raised |-> TRUE, ret |-> None]
        ELSE IF i = 0 THEN [raised |-> FALSE, ret |-> None]
        ELSE [raised |-> FALSE, ret |-> TWSegment(i)]

\* defaultdict(lambda: (0, None)), line 455: reading a missing key inserts
\* the default.
DictRead(d, key) == IF key \in DOMAIN d THEN d ELSE (key :> <<0, None>>) @@ d

DictSet(d, key, v) == (key :> v) @@ d

EmptyDict == [k \in {} |-> None]

\* A variant that never records the counter with the value.
trailing_whitespace_nostore(b, cache, bufnr, tick, buf) ==
    LET s == Scan(b, buf)
    IN  [cache |-> IF s.raised THEN DictRead(cache, bufnr)
                   ELSE DictSet(cache, bufnr, <<0, s.ret>>),
         ret |-> s.ret, scanned |-> TRUE, raised |-> s.raised]

\* trailing_whitespace(pl, segment_info), lines 453-488, with the reply of
\* getbufvar(bufnr, 'changedtick') as tick. The result holds the cache after
\* the call, the value returned, whether the buffer was scanned and whether
\* the call raised.
trailing_whitespace(b, cache, bufnr, tick, buf) ==
    LET c == DictRead(cache, bufnr)
    IN  IF c[bufnr][1] = tick
        THEN [cache |-> c, ret |-> c[bufnr][2],
              scanned |-> FALSE, raised |-> FALSE]
        ELSE LET s == Scan(b, buf)
             IN  [cache |-> IF s.raised THEN c
                            ELSE DictSet(c, bufnr, <<tick, s.ret>>),
                  ret |-> s.ret, scanned |-> TRUE, raised |-> s.raised]

Line_clean == <<"a">>
Line_space == <<"a", " ">>
Line_tab == <<"a", "\t">>
Line_t == <<"a", "t">>
Line_undecodable == <<Undecodable, " ">>

\* Buffer contents the host starts with (a Vim buffer has at least a line).
Contents ==
    { <<Line_clean>>, <<Line_t>>, <<Line_clean, Line_space>>,
      <<Line_tab, Line_clean>>, <<Line_undecodable>> }

NoCall == [bufnr |-> 0, tick |-> 0, ret |-> None, scanned |-> FALSE,
           raised |-> FALSE, content |-> <<>>]

TWIdle ==
    /\ build = "py2"
    /\ buffers = [b \in Bufnrs |-> <<Line_clean>>]
    /\ changedtick = [b \in Bufnrs |-> 0]
    /\ trailing_whitespace_cache = EmptyDict
    /\ twCall = NoCall
    /\ twHist = [b \in Bufnrs |->
                   [seen |-> {}, scans |-> 0, prevTick |-> 0, prevRet |-> None]]
    /\ calls = 0

TWInit ==
    /\ build \in Builds
    /\ buffers \in [Bufnrs -> Contents]
    /\ trailing_whitespace_cache = EmptyDict
    /\ twCall = NoCall
    /\ twHist = [b \in Bufnrs |->
                   [seen |-> {}, scans |-> 0, prevTick |-> 0, prevRet |-> None]]
    /\ calls = 0

\* One call of the segment for buffer bufnr while the host reports tick.
TWCall(bufnr, tick) ==
    LET r == trailing_whitespace(build, trailing_whitespace_cache, bufnr,
                                 tick, buffers[bufnr])
        h == twHist[bufnr]
    IN  /\ calls < MaxCalls
        /\ calls' = calls + 1
        /\ trailing_whitespace_cache' = r.cache
        /\ twCall' = [bufnr |-> bufnr, tick |-> tick, ret |-> r.ret,
                      scanned |-> r.scanned, raised |-> r.raised,
                      content |-> buffers[bufnr]]
        /\ twHist' = [twHist EXCEPT ![bufnr] =
                        [seen |-> h.seen \cup {tick},
                         scans |-> h.scans + (IF r.scanned THEN 1 ELSE 0),
                         prevTick |-> IF r.raised THEN h.prevTick ELSE tick,
                         prevRet |-> IF r.raised THEN h.prevRet ELSE r.ret]]

(***************************************************************************)
(* window_cached (lines 66-80).                                            *)
(***************************************************************************)
\* The functions decorated with @window_cached (lines 205, 294, 352); each
\* has a cache dict of its own.
Funcs == {"file_size", "position", "virtcol_current"}

\* A variant with one slot shared by all windows.
window_cached_oneslot(cache, segment_info, r) ==
    IF segment_info["mode"] = "nc"
    THEN [cache |-> cache,
          ret |-> IF None \in DOMAIN cache THEN cache[None] ELSE None,
          invoked |-> FALSE]
    ELSE [cache |-> DictSet(cache, None, r), ret |-> r, invoked |-> TRUE]

\* ret(segment_info, **kwargs), lines 71-78, on the decorated function's
\* cache; r is what func(**kwargs) returns if it is called. The result holds
\* the cache after the call, the value returned and whether func was called.
window_cached(cache, segment_info, r) ==
    LET window_id == segment_info["window_id"]
    IN  IF segment_info["mode"] = "nc"
        THEN [cache |-> cache,
              ret |-> IF window_id \in DOMAIN cache THEN cache[window_id]
                      ELSE None,
              invoked |-> FALSE]
        ELSE [cache |-> DictSet(cache, window_id, r), ret |-> r,
              invoked |-> TRUE]

\* window_id values: None (buffer lister), -1 (a window without
\* powerline_window_id) and ids the renderer gave out.
WindowIds == {None, <<-1>>, <<1>>}

NoWCCall == [fn |-> "", window_id |-> None, mode |-> "", r |-> None,
             ret |-> None, invoked |-> FALSE]

WCIdle ==
    /\ window_cache = [f \in Funcs |-> EmptyDict]
    /\ wcCall = NoWCCall
    /\ wcHist = [f \in Funcs |-> [w \in WindowIds |-> None]]

HostIdle ==
    /\ tabpages = <<>>
    /\ cur_tabnr = 1
    /\ buflist = <<1>>
    /\ cur_bufnr = 1
    /\ listCall = [lister |-> ""]
    /\ segCall = [fn |-> ""]
    /\ fanCall = [lister |-> ""]

(***************************************************************************)
(* SpecTW: trailing_whitespace under a host whose changedtick replies are  *)
(* arbitrary (any value, repeated or not, on every call).                  *)
(***************************************************************************)
InitTW ==
    /\ TWInit
    /\ changedtick = [b \in Bufnrs |-> 0]
    /\ WCIdle
    /\ HostIdle

Lookup ==
    \E bufnr \in Bufnrs, tick \in 0..MaxTick :
        /\ changedtick' = [changedtick EXCEPT ![bufnr] = tick]
        /\ TWCall(bufnr, tick)
        /\ UNCHANGED <<build, buffers, wcVars, hostVars, listCall, segCall, fanCall>>

NextTW == Lookup

SpecTW == InitTW /\ [][NextTW]_vars

InitWB ==
    /\ TWInit
    /\ changedtick \in [Bufnrs -> 1..MaxTick]
    /\ WCIdle
    /\ HostIdle

Edit ==
    \E bufnr \in Bufnrs, c \in Contents :
        /\ c # buffers[bufnr]
        /\ changedtick[bufnr] <= MaxTick
        /\ buffers' = [buffers EXCEPT ![bufnr] = c]
        /\ changedtick' = [changedtick EXCEPT ![bufnr] = @ + 1]
        /\ UNCHANGED <<build, trailing_whitespace_cache, twCall, twHist, calls,
                       wcVars, hostVars, listCall, segCall, fanCall>>

Redraw ==
    \E bufnr \in Bufnrs :
        /\ TWCall(bufnr, changedtick[bufnr])
        /\ UNCHANGED <<build, buffers, changedtick, wcVars, hostVars, listCall, segCall, fanCall>>

NextWB == Edit \/ Redraw

SpecWB == InitWB /\ [][NextWB]_vars

\* The 1-based number of the first line whose last character is a space or
\* a tab, as the segment value; None when there is no such line.
FirstTrailing(content) ==
    LET hit == {i \in 1..Len(content) :
                  /\ Len(content[i]) > 0
                  /\ content[i][Len(content[i])] \in {" ", "\t"}}
    IN  IF hit = {} THEN None
        ELSE TWSegment(CHOOSE i \in hit : \A j \in hit : i <= j)

\* C9: under a well-behaved host every call returns what a fresh scan of
\* the buffer's content at the call gives (the number of the first line
\* whose last character is a space or a tab, or None), and every stored
\* counter is one the buffer has had.
C9_CacheTransparent ==
    /\ twCall.bufnr \in Bufnrs =>
          /\ ~twCall.raised
          /\ twCall.ret = FirstTrailing(twCall.content)
    /\ \A b \in DOMAIN trailing_whitespace_cache :
          trailing_whitespace_cache[b][1] <= changedtick[b]

(***************************************************************************)
(* SpecWC: calls of the window_cached segments with any window_id and any  *)
(* mode, in any order.                                                     *)
(***************************************************************************)
\* Modes a context passed to a window_cached segment carries here.
WCModes == {"n", "nc"}

\* What a decorated function returns when called.
Results == {<<"A">>, <<"B">>}

InitWC ==
    /\ TWIdle
    /\ WCIdle
    /\ HostIdle

WCCall(fn, segment_info, r) ==
    LET c == window_cached(window_cache[fn], segment_info, r)
        w == segment_info["window_id"]
    IN  /\ calls < MaxCalls
        /\ calls' = calls + 1
        /\ window_cache' = [window_cache EXCEPT ![fn] = c.cache]
        /\ wcCall' = [fn |-> fn, window_id |-> w,
                      mode |-> segment_info["mode"], r |-> r,
                      ret |-> c.ret, invoked |-> c.invoked]
        /\ wcHist' = IF segment_info["mode"] = "nc" THEN wcHist
                     ELSE [wcHist EXCEPT ![fn][w] = r]

Call ==
    \E fn \in Funcs, w \in WindowIds, m \in WCModes, r \in Results :
        /\ WCCall(fn, [window_id |-> w, mode |-> m], r)
        /\ UNCHANGED <<twVars, hostVars, listCall, segCall, fanCall>>

NextWC == Call

SpecWC == InitWC /\ [][NextWC]_vars

\* C2: a call whose mode is nc does not call the wrapped function and
\* returns the result of the most recent call of the same function with the
\* same window_id whose mode was not nc (None when there was none); a call
\* whose mode is not nc calls it, stores the result under window_id and
\* returns it.
C2_FocusGated ==
    wcCall.fn \in Funcs =>
        IF wcCall.mode = "nc"
        THEN /\ ~wcCall.invoked
             /\ wcCall.ret = wcHist[wcCall.fn][wcCall.window_id]
        ELSE /\ wcCall.invoked
             /\ wcCall.ret = wcCall.r
             /\ wcCall.window_id \in DOMAIN window_cache[wcCall.fn]
             /\ window_cache[wcCall.fn][wcCall.window_id] = wcCall.r

\* An nc call that returned a value stored by an earlier focused call while
\* another window of the same function holds a different value.
C2_Witness ==
    /\ wcCall.fn \in Funcs
    /\ wcCall.mode = "nc"
    /\ wcCall.ret = <<"A">>
    /\ wcCall.r = <<"B">>
    /\ \E w \in WindowIds : wcHist[wcCall.fn][w] = <<"B">>

(***************************************************************************)
(* The listers (lines 507-597). A tab page is [number, window], its window *)
(* [number, id, buffer]: id is the window variable powerline_window_id     *)
(* (None when the window has none), buffer the number of the buffer shown. *)
(* A buffer or tab page object is identified by its number, a window       *)
(* object by <<tab number, window number>>. priority_multiplier is held in *)
(* thousandths: 1001 is 1.001.                                             *)
(***************************************************************************)
\* dict.update(**u) on a copy of d
DictUpdate(d, u) ==
    [k \in DOMAIN d \cup DOMAIN u |-> IF k \in DOMAIN u THEN u[k] ELSE d[k]]

\* window.vars.get('powerline_window_id', -1), as int(), line 516
WindowId(window) == IF window.id = None THEN <<-1>> ELSE window.id

TabFields(tabpage) ==
    [tabpage |-> tabpage.number,
     tabnr |-> tabpage.number,
     window |-> <<tabpage.number, tabpage.window.number>>,
     winnr |-> <<tabpage.window.number>>,
     window_id |-> WindowId(tabpage.window),
     buffer |-> tabpage.window.buffer,
     bufnr |-> tabpage.window.buffer]

\* A variant that updates the dict it is given instead of a copy.
tabpage_updated_segment_info_inplace(segment_info, tabpage) ==
    LET u == DictUpdate(segment_info, TabFields(tabpage))
    IN  [arg |-> u, ret |-> u]

\* tabpage_updated_segment_info, lines 507-520: arg is the caller's dict
\* after the call, ret the dict returned.
tabpage_updated_segment_info(segment_info, tabpage) ==
    [arg |-> segment_info,
     ret |-> DictUpdate(segment_info, TabFields(tabpage))]

\* A variant whose distance keeps its sign.
add_multiplier_signed(number, cur_number, dct) ==
    DictUpdate(dct, [priority_multiplier |-> 1000 + (number - cur_number)])

\* add_multiplier, lines 540-542 and 579-581
add_multiplier(number, cur_number, dct) ==
    DictUpdate(dct, [priority_multiplier |-> 1000 + Abs(number - cur_number)])

RECURSIVE tablister_from(_, _, _, _)
\* The list comprehension of lines 544-550 from the i-th tab page on.
tablister_from(segment_info, tabs, cur, i) ==
    IF i > Len(tabs) THEN [segment_info |-> segment_info, ret |-> <<>>]
    ELSE LET u == tabpage_updated_segment_info(segment_info, tabs[i])
             o == add_multiplier(tabs[i].number, cur,
                     [mode |-> IF tabs[i].number = cur THEN "tab" ELSE "nc"])
             rest == tablister_from(u.arg, tabs, cur, i + 1)
         IN  [segment_info |-> rest.segment_info,
              ret |-> <<<<u.ret, o>>>> \o rest.ret]

\* tablister(pl, segment_info), lines 523-550: the caller's dict after the
\* call and the list returned.
tablister(segment_info, tabs, cur) == tablister_from(segment_info, tabs, cur, 1)

BufferFields(bufnr) ==
    [window |-> None, winnr |-> None, window_id |-> None,
     buffer |-> bufnr, bufnr |-> bufnr]

\* buffer_updated_segment_info, lines 553-562
buffer_updated_segment_info(segment_info, bufnr) ==
    [arg |-> segment_info,
     ret |-> DictUpdate(segment_info, BufferFields(bufnr))]

RECURSIVE bufferlister_from(_, _, _, _)
\* The list comprehension of lines 583-589 from the i-th buffer on.
bufferlister_from(segment_info, bufs, cur, i) ==
    IF i > Len(bufs) THEN [segment_info |-> segment_info, ret |-> <<>>]
    ELSE LET u == buffer_updated_segment_info(segment_info, bufs[i])
             o == add_multiplier(bufs[i], cur,
                     [mode |-> IF bufs[i] = cur THEN "tab" ELSE "nc"])
             rest == bufferlister_from(u.arg, bufs, cur, i + 1)
         IN  [segment_info |-> rest.segment_info,
              ret |-> <<<<u.ret, o>>>> \o rest.ret]

\* bufferlister(pl, segment_info), lines 565-589
bufferlister(segment_info, bufs, cur) ==
    bufferlister_from(segment_info, bufs, cur, 1)

\* A variant that lists buffers whenever at most one tab page is open.
tabbuflister_atmostone(segment_info, tabs, cur_tab, bufs, cur_buf) ==
    IF Len(tabs) <= 1 THEN bufferlister(segment_info, bufs, cur_buf)
    ELSE tablister(segment_info, tabs, cur_tab)

\* tabbuflister, lines 592-597
tabbuflister(segment_info, tabs, cur_tab, bufs, cur_buf) ==
    IF Len(tabs) = 1 THEN bufferlister(segment_info, bufs, cur_buf)
    ELSE tablister(segment_info, tabs, cur_tab)

(***************************************************************************)
(* SpecList: the listers called between any changes of the host's tab      *)
(* pages and buffers. A host that cannot enumerate tab pages reports none  *)
(* for good.                                                               *)
(***************************************************************************)
Listers == {"tablister", "bufferlister", "tabbuflister"}

\* The base contexts the renderer passes: the current window's, with or
\* without the tab keys.
BaseContexts ==
    LET w == IF tabpages = <<>> THEN [number |-> 1, id |-> None]
             ELSE tabpages[cur_tabnr].window
        common == [window |-> <<cur_tabnr, w.number>>,
                   winnr |-> <<w.number>>,
                   window_id |-> WindowId(w),
                   buffer |-> cur_bufnr,
                   bufnr |-> cur_bufnr,
                   environ |-> "environ"]
    IN  { DictUpdate(common, [mode |-> m]) : m \in {"n", "nc"} } \cup
        { DictUpdate(common, [mode |-> "n", tabpage |-> cur_tabnr,
                              tabnr |-> cur_tabnr]) }

NewWindow(id, bufnr) == [number |-> 1, id |-> id, buffer |-> bufnr]

InitList ==
    /\ TWIdle
    /\ WCIdle
    /\ buflist \in {<<1>>, <<2>>, <<1, 2>>}
    /\ cur_bufnr \in {buflist[i] : i \in 1..Len(buflist)}
    /\ cur_tabnr = 1
    /\ \/ tabpages = <<>>
       \/ \E id \in {None, <<1>>} :
            tabpages = <<[number |-> 1, window |-> NewWindow(id, cur_bufnr)]>>
    /\ listCall = [lister |-> ""]
    /\ segCall = [fn |-> ""]
    /\ fanCall = [lister |-> ""]

\* :tabnew: a tab page is appended, showing the current buffer, and becomes
\* the current one.
TabNew ==
    /\ tabpages # <<>>
    /\ Len(tabpages) < MaxTabs
    /\ \E id \in {None, <<Len(tabpages) + 1>>} :
         tabpages' = Append(tabpages,
                        [number |-> Len(tabpages) + 1,
                         window |-> NewWindow(id, cur_bufnr)])
    /\ cur_tabnr' = Len(tabpages) + 1
    /\ listCall' = [lister |-> ""]
    /\ fanCall' = [lister |-> ""]
    /\ UNCHANGED <<twVars, calls, wcVars, buflist, cur_bufnr, segCall>>

\* gt: another tab page becomes the current one.
TabNext ==
    \E n \in 1..Len(tabpages) :
        /\ n # cur_tabnr
        /\ cur_tabnr' = n
        /\ cur_bufnr' = tabpages[n].window.buffer
        /\ listCall' = [lister |-> ""]
        /\ fanCall' = [lister |-> ""]
    /\ fanCall' = [lister |-> ""]
        /\ UNCHANGED <<twVars, calls, wcVars, tabpages, buflist, segCall>>

\* :badd: a buffer with the next number is added.
BufAdd ==
    /\ buflist[Len(buflist)] < MaxBuf
    /\ buflist' = Append(buflist, buflist[Len(buflist)] + 1)
    /\ listCall' = [lister |-> ""]
    /\ fanCall' = [lister |-> ""]
    /\ UNCHANGED <<twVars, calls, wcVars, tabpages, cur_tabnr, cur_bufnr, segCall>>

\* :buffer N: the current window shows another buffer.
BufSwitch ==
    \E i \in 1..Len(buflist) :
        /\ buflist[i] # cur_bufnr
        /\ cur_bufnr' = buflist[i]
        /\ tabpages' = IF tabpages = <<>> THEN tabpages
                       ELSE [tabpages EXCEPT ![cur_tabnr].window.buffer = buflist[i]]
        /\ listCall' = [lister |-> ""]
        /\ fanCall' = [lister |-> ""]
    /\ fanCall' = [lister |-> ""]
        /\ UNCHANGED <<twVars, calls, wcVars, cur_tabnr, buflist, segCall>>

ListerCall(lister, base) ==
    LET r == IF lister = "tablister" THEN tablister(base, tabpages, cur_tabnr)
             ELSE IF lister = "bufferlister"
             THEN bufferlister(base, buflist, cur_bufnr)
             ELSE tabbuflister(base, tabpages, cur_tabnr, buflist, cur_bufnr)
    IN  listCall' = [lister |-> lister, base |-> base,
                     after |-> r.segment_info, ret |-> r.ret]

List ==
    \E lister \in Listers, base \in BaseContexts :
        /\ ListerCall(lister, base)
        /\ UNCHANGED <<twVars, calls, wcVars, hostVars, segCall, fanCall>>

NextList == TabNew \/ TabNext \/ BufAdd \/ BufSwitch \/ List

SpecList == InitList /\ [][NextList]_vars

\* C3: tablister returns one entry per tab page in the host's order; the
\* entry of tab page t has mode tab if t is the current tab page and nc
\* otherwise, and priority_multiplier 1 + 0.001 * |number(t) - number(current)|.
C3_TabFanOut ==
    listCall.lister = "tablister" =>
        /\ Len(listCall.ret) = Len(tabpages)
        /\ \A i \in 1..Len(tabpages) :
             LET t == tabpages[i]
                 e == listCall.ret[i]
             IN  /\ e[1]["tabnr"] = t.number
                 /\ e[1]["tabpage"] = t.number
                 /\ e[2]["mode"] = (IF t.number = cur_tabnr THEN "tab" ELSE "nc")
                 /\ e[2]["priority_multiplier"] = 1000 + Abs(t.number - cur_tabnr)

\* Tab pages 1, 2, 3 with 2 current: weights 1.001, 1.000, 1.001 and modes
\* nc, tab, nc.
C3_Witness ==
    /\ listCall.lister = "tablister"
    /\ Len(tabpages) = 3
    /\ cur_tabnr = 2
    /\ [i \in 1..3 |-> listCall.ret[i][2]["priority_multiplier"]]
         = <<1001, 1000, 1001>>
    /\ [i \in 1..3 |-> listCall.ret[i][2]["mode"]] = <<"nc", "tab", "nc">>

\* C4: bufferlister returns one entry per buffer in the host's order; the
\* entry of the current buffer has mode buf, every other entry mode nc, and
\* each priority_multiplier is 1 + 0.001 * |bufnr - current bufnr|.
C4_BufferFanOut ==
    listCall.lister = "bufferlister" =>
        /\ Len(listCall.ret) = Len(buflist)
        /\ \A i \in 1..Len(buflist) :
             LET e == listCall.ret[i]
             IN  /\ e[1]["bufnr"] = buflist[i]
                 /\ e[2]["mode"] = (IF buflist[i] = cur_bufnr THEN "buf" ELSE "nc")
                 /\ e[2]["priority_multiplier"] = 1000 + Abs(buflist[i] - cur_bufnr)

\* C5 (as stated): tabbuflister returns what tablister returns when more
\* than one tab page is open and what bufferlister returns in every other
\* case.
C5_AutoSelection ==
    listCall.lister = "tabbuflister" =>
        listCall.ret =
            IF Len(tabpages) > 1
            THEN tablister(listCall.base, tabpages, cur_tabnr).ret
            ELSE bufferlister(listCall.base, buflist, cur_bufnr).ret

\* C5 (amended): tabbuflister returns what bufferlister returns when exactly
\* one tab page is open, and what tablister returns in every other case,
\* that of no tab page included.
C5_AutoSelectionExactlyOne ==
    listCall.lister = "tabbuflister" =>
        listCall.ret =
            IF Len(tabpages) = 1
            THEN bufferlister(listCall.base, buflist, cur_bufnr).ret
            ELSE tablister(listCall.base, tabpages, cur_tabnr).ret

\* tabbuflister called while the host reports no tab page and two buffers:
\* the tab-based result, which is empty.
C5_Witness ==
    /\ listCall.lister = "tabbuflister"
    /\ Len(tabpages) = 0
    /\ Len(buflist) = 2
    /\ listCall.ret = <<>>

TabKeys == {"tabpage", "tabnr", "window", "winnr", "window_id", "buffer", "bufnr"}

BufferKeys == {"window", "winnr", "window_id", "buffer", "bufnr"}

\* C6: a lister leaves the base context as it was; every derived context
\* has the base's value on every key but the overwritten location keys;
\* every override dict has exactly the keys mode and priority_multiplier,
\* and neither is written into a context.
C6_Frame ==
    listCall.lister \in {"tablister", "bufferlister"} =>
        LET keys == IF listCall.lister = "tablister" THEN TabKeys ELSE BufferKeys
            base == listCall.base
        IN  /\ listCall.after = base
            /\ \A i \in 1..Len(listCall.ret) :
                 LET e == listCall.ret[i]
                 IN  /\ DOMAIN e[1] = DOMAIN base \cup keys
                     /\ \A k \in DOMAIN base \ keys : e[1][k] = base[k]
                     /\ e[1]["mode"] = base["mode"]
                     /\ "priority_multiplier" \notin DOMAIN e[1]
                     /\ DOMAIN e[2] = {"mode", "priority_multiplier"}

\* tablister over two tab pages from the context of the second: the entry
\* of the first differs from the base on the location keys only.
C6_Witness ==
    /\ listCall.lister = "tablister"
    /\ Len(listCall.ret) = 2
    /\ cur_tabnr = 2
    /\ listCall.ret[1][1]["window"] # listCall.base["window"]
    /\ listCall.ret[1][1]["environ"] = listCall.base["environ"]
    /\ listCall.ret[1][2]["mode"] = "nc"
    /\ listCall.base["mode"] = "n"

(***************************************************************************)
(* The mode segment (lines 38-57 and 83-98).                               *)
(***************************************************************************)
vim_modes ==
    [m \in {"n", "no", "v", "V", "^V", "s", "S", "^S", "i", "R", "Rv", "c",
            "cv", "ce", "r", "rm", "r?", "!"} |->
        CASE m = "n" -> "NORMAL"
          [] m = "no" -> "N·OPER"
          [] m = "v" -> "VISUAL"
          [] m = "V" -> "V·LINE"
          [] m = "^V" -> "V·BLCK"
          [] m = "s" -> "SELECT"
          [] m = "S" -> "S·LINE"
          [] m = "^S" -> "S·BLCK"
          [] m = "i" -> "INSERT"
          [] m = "R" -> "REPLACE"
          [] m = "Rv" -> "V·RPLCE"
          [] m = "c" -> "COMMND"
          [] m = "cv" -> "VIM EX"
          [] m = "ce" -> "EX"
          [] m = "r" -> "PROMPT"
          [] m = "rm" -> "MORE"
          [] m = "r?" -> "CONFIRM"
          [] m = "!" -> "SHELL"]

\* d[key] of a dict: the value, or KeyError.
Subscript(d, key) ==
    IF key \in DOMAIN d THEN [raised |-> "", ret |-> <<d[key]>>]
    ELSE [raised |-> "KeyError", ret |-> None]

\* mode(pl, segment_info, override=None), lines 90-98. override is None or
\* <<dict>>; not override holds of None and of the empty dict.
mode(segment_info, override) ==
    LET m == segment_info["mode"]
    IN  IF m = "nc" THEN [raised |-> "", ret |-> None]
        ELSE IF override = None \/ DOMAIN override[1] = {}
        THEN Subscript(vim_modes, m)
        ELSE IF m \in DOMAIN override[1] THEN Subscript(override[1], m)
        ELSE Subscript(vim_modes, m)

(***************************************************************************)
(* SpecMode: the mode segment called with every mode a context can carry   *)
(* and every kind of override.                                             *)
(***************************************************************************)
\* The values of a context's mode: the editor's mode codes and the tags the
\* listers and the renderer use.
ContextModes == DOMAIN vim_modes \cup {"tab", "buf", "nc"}

\* override: unset, empty, or naming one mode.
Overrides ==
    {None, <<EmptyDict>>} \cup { <<(m :> "OVR")>> : m \in ContextModes }

InitMode ==
    /\ TWIdle
    /\ WCIdle
    /\ HostIdle

ModeCall ==
    \E m \in ContextModes, override \in Overrides :
        LET r == mode([mode |-> m], override)
        IN  /\ segCall' = [fn |-> "mode", mode |-> m, override |-> override,
                           raised |-> r.raised, ret |-> r.ret]
            /\ UNCHANGED <<twVars, calls, wcVars, hostVars, listCall, fanCall>>

NextMode == ModeCall

SpecMode == InitMode /\ [][NextMode]_vars

\* C7: for every mode of a context and every override the lookup does not
\* fail: it returns the override's label when the override contains the
\* mode, the default table's label otherwise, and None for nc.
C7_ModeLookupTotal ==
    segCall.fn = "mode" =>
        /\ segCall.raised = ""
        /\ IF segCall.mode = "nc" THEN segCall.ret = None
           ELSE IF segCall.override # None /\ segCall.mode \in DOMAIN segCall.override[1]
           THEN segCall.ret = <<segCall.override[1][segCall.mode]>>
           ELSE segCall.mode \in DOMAIN vim_modes =>
                    segCall.ret = <<vim_modes[segCall.mode]>>

(***************************************************************************)
(* The segments that need a file name (lines 156-202 and 385-436). A       *)
(* Python string is [str |-> its characters]; a buffer name is the tuple   *)
(* of its characters, empty (None or '', both false) when the buffer has   *)
(* no file name.                                                           *)
(***************************************************************************)
PyStr(chars) == [str |-> chars]

RECURSIVE decode(_)
\* bytes.decode('utf-8', 'powerline_vim_strtrans_error'): a byte that does
\* not decode is replaced by its printable form.
decode(chars) ==
    IF chars = <<>> THEN <<>>
    ELSE (IF Head(chars) = Undecodable THEN <<"<", "U", ">">> ELSE <<Head(chars)>>)
         \o decode(Tail(chars))

RECURSIVE basename(_)
\* os.path.basename: what follows the last separator.
basename(chars) ==
    IF \A k \in 1..Len(chars) : chars[k] # "/" THEN chars
    ELSE basename(Tail(chars))

StartsWith(chars, prefix) ==
    /\ Len(chars) >= Len(prefix)
    /\ SubSeq(chars, 1, Len(prefix)) = prefix

RECURSIVE lstrip(_)
lstrip(chars) ==
    IF chars # <<>> /\ Head(chars) \in {" ", "\t"} THEN lstrip(Tail(chars))
    ELSE chars

RECURSIVE rstrip(_)
rstrip(chars) ==
    IF chars # <<>> /\ chars[Len(chars)] \in {" ", "\t"}
    THEN rstrip(SubSeq(chars, 1, Len(chars) - 1))
    ELSE chars

\* str.strip()
strip(chars) == rstrip(lstrip(chars))

NoFilePart(no_file_text) ==
    <<[contents |-> PyStr(no_file_text),
       highlight_group |-> <<"file_name_no_file", "file_name">>]>>

\* A variant without the early return for a buffer that has no name.
file_name_noguard(name, display_no_file, no_file_text) ==
    IF name = <<>> /\ display_no_file THEN <<NoFilePart(no_file_text)>>
    ELSE <<PyStr(decode(basename(name)))>>

\* file_name(pl, segment_info, display_no_file, no_file_text), lines
\* 193-202, with name = buffer_name(segment_info['buffer']): None, or
\* <<the value returned>>.
file_name(name, display_no_file, no_file_text) ==
    IF name = <<>>
    THEN IF display_no_file THEN <<NoFilePart(no_file_text)>> ELSE None
    ELSE <<PyStr(decode(basename(name)))>>

\* file_directory(...), lines 169-179; fnamemodify is the host's reply to
\* fnamemodify(name, mods).
file_directory(name, shorten_home, fnamemodify) ==
    IF name = <<>> THEN None
    ELSE IF fnamemodify = <<>> THEN None
    ELSE LET d == IF shorten_home /\ StartsWith(fnamemodify, <<"/", "h", "o", "m", "e", "/">>)
                  THEN <<"~">> \o SubSeq(fnamemodify, 7, Len(fnamemodify))
                  ELSE fnamemodify
         IN  <<PyStr(decode(d) \o <<"/">>)>>

\* skip, lines 398 and 422
skip(name, buftype) == ~(name # <<>> /\ buftype = <<>>)

\* branch(...), lines 397-411; repo is the reply of guess(): None or
\* [branch, tree_status, status].
branch(name, buftype, status_colors, repo) ==
    IF skip(name, buftype) \/ repo = None THEN None
    ELSE LET st == repo[1].tree_status
             scol == IF status_colors
                     THEN <<IF st # None /\ strip(st[1]) # <<>>
                            THEN "branch_dirty" ELSE "branch_clean",
                            "branch">>
                     ELSE <<"branch">>
         IN  <<(<<[contents |-> PyStr(repo[1].branch),
                   highlight_group |-> scol,
                   divider_highlight_group |-> "branch:divider"]>>)>>

\* file_vcs_status(...), lines 421-436
file_vcs_status(name, buftype, repo) ==
    IF skip(name, buftype) \/ repo = None THEN None
    ELSE LET status == repo[1].status
         IN  IF status = None \/ status[1] = <<>> THEN None
             ELSE LET st == strip(status[1])
                  IN  <<[i \in 1..Len(st) |->
                          [contents |-> PyStr(<<st[i]>>),
                           highlight_group |->
                              <<<<"file_vcs_status_", st[i]>>, "file_vcs_status">>]]>>

(***************************************************************************)
(* SpecFile: the file-name segments called on buffers with and without a   *)
(* name, with any options and host replies, the caches holding what        *)
(* earlier redraws left in them.                                           *)
(***************************************************************************)
FileFuncs == {"file_name", "file_directory", "branch", "file_vcs_status"}

Name_abs == <<"/", "h", "o", "m", "e", "/", "u", "/", "f">>

Names == {<<>>, <<"f">>, Name_abs}

\* Replies of fnamemodify(name, mods)
Dirs == {<<>>, <<".">>, <<"/", "h", "o", "m", "e", "/", "u">>}

Buftypes == {<<>>, <<"h", "e", "l", "p">>}

\* Replies of guess(): no repository, or one with its branch and statuses.
Repos ==
    {None} \cup
    { <<[branch |-> <<"m">>, tree_status |-> ts, status |-> st]>> :
        ts \in {None, <<<<" ", "M">>>>},
        st \in {None, <<<<>>>>, <<<<" ", "M">>>>, <<<<" ">>>>} }

InitFile ==
    /\ build = "py2"
    /\ buffers = [b \in Bufnrs |-> <<Line_space>>]
    /\ changedtick = [b \in Bufnrs |-> 1]
    /\ twCall = NoCall
    /\ twHist = [b \in Bufnrs |->
                   [seen |-> {}, scans |-> 0, prevTick |-> 0, prevRet |-> None]]
    /\ calls = 0
    /\ trailing_whitespace_cache \in
         {EmptyDict,
          trailing_whitespace("py2", EmptyDict, 1, 1, <<Line_space>>).cache}
    /\ window_cache \in
         {[f \in Funcs |-> EmptyDict],
          [f \in Funcs |->
             IF f = "file_size"
             THEN window_cached(EmptyDict, [window_id |-> <<1>>, mode |-> "n"],
                                <<"A">>).cache
             ELSE EmptyDict]}
    /\ wcCall = NoWCCall
    /\ wcHist = [f \in Funcs |-> [w \in WindowIds |-> None]]
    /\ HostIdle

FileCall ==
    \E fn \in FileFuncs, name \in Names, flag \in BOOLEAN, dir \in Dirs,
       buftype \in Buftypes, repo \in Repos :
        LET ret == CASE fn = "file_name" -> file_name(name, flag, <<"[", "]">>)
                     [] fn = "file_directory" -> file_directory(name, flag, dir)
                     [] fn = "branch" -> branch(name, buftype, flag, repo)
                     [] fn = "file_vcs_status" -> file_vcs_status(name, buftype, repo)
        IN  /\ segCall' = [fn |-> fn, name |-> name, flag |-> flag, dir |-> dir,
                           buftype |-> buftype, repo |-> repo, ret |-> ret]
            /\ UNCHANGED <<twVars, calls, wcVars, hostVars, listCall, fanCall>>

NextFile == FileCall

SpecFile == InitFile /\ [][NextFile]_vars

\* C8 (as stated): every call of a file-name segment on a buffer without a
\* file name, under any options, returns None and leaves both caches as
\* they were.
C8_AbsentAnyOptions ==
    [][(segCall'.fn \in FileFuncs /\ segCall'.name = <<>>) =>
          /\ segCall'.ret = None
          /\ window_cache' = window_cache
          /\ trailing_whitespace_cache' = trailing_whitespace_cache]_vars

\* C8 (amended): every call of file_name with display_no_file false, of
\* file_directory, of branch or of file_vcs_status on a buffer without a
\* file name returns None; file_name with display_no_file true returns the
\* one-part list holding no_file_text; every such call leaves both caches
\* as they were.
C8_AbsentUnlessDisplayNoFile ==
    [][(segCall'.fn \in FileFuncs /\ segCall'.name = <<>>) =>
          /\ segCall'.ret =
               IF segCall'.fn = "file_name" /\ segCall'.flag
               THEN <<NoFilePart(<<"[", "]">>)>> ELSE None
          /\ window_cache' = window_cache
          /\ trailing_whitespace_cache' = trailing_whitespace_cache]_vars

\* file_name without display_no_file called on a buffer without a name
\* while both caches hold entries.
C8_Witness ==
    /\ segCall.fn = "file_name"
    /\ segCall.name = <<>>
    /\ ~segCall.flag
    /\ segCall.ret = None
    /\ DOMAIN window_cache["file_size"] # {}
    /\ DOMAIN trailing_whitespace_cache # {}

(***************************************************************************)
(* SpecFan: a window_cached segment evaluated over a lister's output,      *)
(* redraw after redraw, while tab pages and buffers are opened and the     *)
(* focus moves.                                                            *)
(***************************************************************************)
\* What a window_cached function returns when called now: file_size,
\* position and virtcol_current read vim.current.buffer and the current
\* window (lines 217, 306-309, 361), so the value is that of the current
\* window and buffer, whatever context the call was made for.
CurrentValue ==
    <<[window |-> <<cur_tabnr,
                    IF tabpages = <<>> THEN 1
                    ELSE tabpages[cur_tabnr].window.number>>,
       bufnr |-> cur_bufnr]>>

\* The context a segment of a lister's entry is evaluated with: the derived
\* context with mode set to the entry's tag.
EntryContext(entry) == DictUpdate(entry[1], [mode |-> entry[2]["mode"]])

RECURSIVE EvalFrom(_, _, _)
\* The segment evaluated once per entry, in order, from the i-th on: the
\* cache after the calls and the value returned for each entry.
EvalFrom(cache, entries, i) ==
    IF i > Len(entries) THEN [cache |-> cache, rets |-> <<>>]
    ELSE LET c == window_cached(cache, EntryContext(entries[i]), CurrentValue)
             rest == EvalFrom(c.cache, entries, i + 1)
         IN  [cache |-> rest.cache, rets |-> <<c.ret>> \o rest.rets]

InitFan ==
    /\ TWIdle
    /\ WCIdle
    /\ buflist = <<1>>
    /\ cur_bufnr = 1
    /\ cur_tabnr = 1
    /\ \E id \in {None, <<1>>} :
         tabpages = <<[number |-> 1, window |-> NewWindow(id, cur_bufnr)]>>
    /\ listCall = [lister |-> ""]
    /\ segCall = [fn |-> ""]
    /\ fanCall = [lister |-> ""]

Render ==
    \E lister \in {"tablister", "bufferlister"}, fn \in Funcs,
       base \in BaseContexts :
        LET l == IF lister = "tablister" THEN tablister(base, tabpages, cur_tabnr)
                 ELSE bufferlister(base, buflist, cur_bufnr)
            e == EvalFrom(window_cache[fn], l.ret, 1)
        IN  /\ calls < MaxCalls
            /\ calls' = calls + 1
            /\ window_cache' = [window_cache EXCEPT ![fn] = e.cache]
            /\ fanCall' = [lister |-> lister, fn |-> fn,
                           entries |-> [i \in 1..Len(l.ret) |->
                               [window |-> l.ret[i][1]["window"],
                                bufnr |-> l.ret[i][1]["bufnr"],
                                mode |-> l.ret[i][2]["mode"],
                                ret |-> e.rets[i]]]]
            /\ UNCHANGED <<twVars, wcCall, wcHist, hostVars, listCall, segCall>>

NextFan ==
    \/ Len(tabpages) < FanTabs /\ TabNew
    \/ TabNext
    \/ Len(buflist) < FanBufs /\ BufAdd
    \/ BufSwitch
    \/ Render

SpecFan == InitFan /\ [][NextFan]_vars

\* C10: the value returned for a not-current entry of a lister is no value
\* or a value computed while that entry's own window (tab entries) or
\* buffer (buffer entries) was the focused one.
C10_SnapshotOwnership ==
    fanCall.lister # "" =>
        \A i \in 1..Len(fanCall.entries) :
            LET e == fanCall.entries[i]
            IN  (e.mode = "nc" /\ e.ret # None) =>
                    IF fanCall.lister = "tablister"
                    THEN e.ret[1].window = e.window
                    ELSE e.ret[1].bufnr = e.bufnr

====
